---- MODULE Spec2Model ----
(***************************************************************************)
(* Earthquake ETL: extract (etl/extract.py), transform (etl/transform.py), *)
(* load (etl/load.py) and the orchestrator run_pipeline (etl_main.py).     *)
(*                                                                         *)
(* A DataFrame is a sequence of rows; a row is a record keyed by column    *)
(* name.  A nullable scalar is <<>> (None/NaN) or <<v>>.  Magnitudes are   *)
(* in tenths (5.5 is 55).  A datetime value carries its kind ("ts", "NaT"  *)
(* or "str" for an unparseable string), its instant t in hours since the   *)
(* epoch (UTC) and the timezone of its column ("none" when tz-naive).      *)
(* The clock of the geocoding pass counts ticks, TicksPerUnit to a second. *)
(***************************************************************************)
EXTENDS Integers, Sequences, FiniteSets, TLC

VARIABLES pc, fetchRaised, raw, cleaned, enriched, recleaned, invoked, raised, loadFailed,
          completed, rowIdx, tries, retried, lastCall, now, callStarts, lookups,
          mag, mag_category, is_significant

vars == <<pc, fetchRaised, raw, cleaned, enriched, recleaned, invoked, raised, loadFailed,
          completed, rowIdx, tries, retried, lastCall, now, callStarts, lookups,
          mag, mag_category, is_significant>>

(* ---------------------------- bounds ----------------------------------- *)
MaxRows == 2
MaxCallTicks == 2
TicksPerUnit == 2
MaxMag == 100

(* ------------------------ program constants ---------------------------- *)
MinDelay == 1
MaxRetries == 5
Timeout == 5
ErrorWait == 5
WIBOffset == 7

(* ---------------------------- values ----------------------------------- *)
Null == <<>>
Some(v) == <<v>>
IsNull(x) == x = <<>>

Ts(t, tz) == [kind |-> "ts", t |-> t, tz |-> tz]
NaT(tz) == [kind |-> "NaT", t |-> 0, tz |-> tz]
BadStr == [kind |-> "str", t |-> 0, tz |-> "none"]

Max(a, b) == IF a > b THEN a ELSE b

\* The positions 1..Len(df) of the rows of a frame, in order.
Positions(df) == [i \in 1..Len(df) |-> i]

\* df.iloc[kept]: the rows of df at the positions kept.
Rows(df, kept) == [k \in 1..Len(kept) |-> df[kept[k]]]

(* --------------------------- extract.py -------------------------------- *)
\* pd.to_datetime(x, unit='ms'): None gives NaT, a number a tz-naive Timestamp.
ToDatetimeMs(x) == IF IsNull(x) THEN NaT("none") ELSE Ts(x[1], "none")

\* One record of parse_geojson, from a feature f of the feed.
Record(f) ==
    [id |-> f.id, place |-> f.place, mag |-> f.mag,
     time |-> ToDatetimeMs(f.time), updated |-> ToDatetimeMs(f.updated),
     tz |-> Null, felt |-> Null, cdi |-> Null, mmi |-> Null, alert |-> Null,
     status |-> Some("reviewed"), tsunami |-> Some(0), sig |-> Some(1),
     net |-> Some("us"), code |-> Some("c"), ids |-> Some("i"),
     sources |-> Some("s"), types |-> Some("t"),
     longitude |-> f.coordinates[1], latitude |-> f.coordinates[2],
     depth |-> f.coordinates[3],
     fetched_at |-> Ts(f.fetched, "UTC")]

parse_geojson(features) == [i \in 1..Len(features) |-> Record(features[i])]

\* fetch_earthquake_all_day: the parsed feed, or an empty frame when the
\* request or the parse raised.
fetch_earthquake_all_day(ok, features) ==
    IF ok THEN parse_geojson(features) ELSE <<>>

(* -------------------------- transform.py ------------------------------- *)
\* Mutant of drop_duplicates: no row is dropped.
drop_duplicates_none(df) == df

\* Mutant of drop_duplicates: the last row of every id is kept (keep='last').
drop_duplicates_keep_last(df) ==
    Rows(df, SelectSeq(Positions(df),
                        LAMBDA i : \A j \in (i + 1)..Len(df) : df[j].id # df[i].id))

\* df.drop_duplicates(subset=["id"]): the first row of every id is kept.
drop_duplicates(df) ==
    Rows(df, SelectSeq(Positions(df),
                        LAMBDA i : \A j \in 1..(i - 1) : df[j].id # df[i].id))

RequiredNonNull(r) ==
    /\ ~IsNull(r.mag)
    /\ ~IsNull(r.place)
    /\ ~IsNull(r.latitude)
    /\ ~IsNull(r.longitude)
    /\ r.time.kind # "NaT"

\* df.dropna(subset=["mag", "place", "latitude", "longitude", "time"])
dropna(df) == SelectSeq(df, RequiredNonNull)

\* pd.to_datetime(x, errors='coerce'): an unparseable value becomes NaT.
to_datetime_coerce(x) == IF x.kind = "str" THEN NaT("none") ELSE x

\* The timezone of a datetime column of df ("none" when tz-naive).
ColumnTz(df, col) ==
    IF \E i \in 1..Len(df) : df[i][col].tz # "none"
    THEN (CHOOSE z \in {df[i][col].tz : i \in 1..Len(df)} : z # "none")
    ELSE "none"

\* .dt.tz_localize(z) on a value of a tz-naive column: the wall time is read
\* as a time of zone z (z is UTC here, so the instant t is unchanged).
tz_localize(x, z) == [x EXCEPT !.tz = z]

\* .dt.tz_convert(z) on a value of a tz-aware column: same instant, zone z.
tz_convert(x, z) == [x EXCEPT !.tz = z]

\* lines 34-35: to_datetime(coerce), tz_localize('UTC'), tz_convert(WIB)
LocalizeConvert(x) == tz_convert(tz_localize(to_datetime_coerce(x), "UTC"), "WIB")

\* line 36: to_datetime(coerce), tz_convert('UTC'), tz_convert(WIB)
ConvertConvert(x) == tz_convert(tz_convert(to_datetime_coerce(x), "UTC"), "WIB")

selected_columns ==
    {"id", "place", "mag", "time", "updated", "latitude", "longitude", "depth",
     "tsunami", "sig", "status", "alert", "types", "felt", "cdi", "mmi",
     "fetched_at"}

\* df[df['mag'] >= 0]
MagFilter(df) == SelectSeq(df, LAMBDA r : r.mag[1] >= 0)

Project(df) == [i \in 1..Len(df) |-> [c \in selected_columns |-> df[i][c]]]

\* clean_earthquake_data: [err, df]; err names the exception that escapes.
clean_earthquake_data(df) ==
    IF df = <<>> THEN [err |-> "none", df |-> df]
    ELSE LET d == dropna(drop_duplicates(df)) IN
         IF ColumnTz(df, "time") # "none" \/ ColumnTz(df, "updated") # "none"
         THEN [err |-> "TypeError", df |-> <<>>]   \* tz_localize: already tz-aware
         ELSE IF ColumnTz(df, "fetched_at") = "none"
         THEN [err |-> "TypeError", df |-> <<>>]   \* tz_convert: tz-naive
         ELSE LET conv == [i \in 1..Len(d) |->
                             [d[i] EXCEPT !.time = LocalizeConvert(@),
                                          !.updated = LocalizeConvert(@),
                                          !.fetched_at = ConvertConvert(@)]]
              IN [err |-> "none", df |-> Project(MagFilter(conv))]

\* Mutant of classify_magnitude: the bounds are inclusive upper bounds.
classify_magnitude_inclusive(m) ==
    IF m <= 20 THEN "Micro"
    ELSE IF m <= 40 THEN "Minor"
    ELSE IF m <= 55 THEN "Light"
    ELSE IF m <= 70 THEN "Moderate"
    ELSE IF m <= 80 THEN "Strong"
    ELSE "Major"

\* classify_magnitude, magnitudes in tenths
classify_magnitude(m) ==
    IF m < 20 THEN "Micro"
    ELSE IF m < 40 THEN "Minor"
    ELSE IF m < 55 THEN "Light"
    ELSE IF m < 70 THEN "Moderate"
    ELSE IF m < 80 THEN "Strong"
    ELSE "Major"

\* df['mag'] >= 5.5
significant(m) == m >= 55

\* Hours east of UTC of a zone.
UtcOffset(z) == IF z = "WIB" THEN WIBOffset ELSE 0

DayNames ==
    <<"Monday", "Tuesday", "Wednesday", "Thursday", "Friday", "Saturday", "Sunday">>

\* .dt.day_name(): the weekday of the wall time (1970-01-01 was a Thursday).
day_name(x) ==
    IF x.kind # "ts" THEN Null
    ELSE Some(DayNames[(((x.t + UtcOffset(x.tz)) \div 24 + 3) % 7) + 1])

\* .dt.hour: the hour of the wall time.
hour(x) == IF x.kind # "ts" THEN Null ELSE Some((x.t + UtcOffset(x.tz)) % 24)

\* What coder.reverse hands back: None (no match), or a Location whose raw
\* response carries an "address" object or none.
NoneResp == [kind |-> "None", address |-> Null]
Location(address) == [kind |-> "Location", address |-> address]
AllNull == [city |-> Null, state |-> Null, country |-> Null]
Jakarta ==
    [city |-> Some("Jakarta"), state |-> Some("Jakarta"), country |-> Some("Indonesia")]
Responses == {NoneResp, Location(Null), Location(Some(Jakarta))}

\* get_address_detail lines 94-97 on the value the rate limiter returned:
\* address.raw.get("address").get(...) if address else np.nan
address_fields(address) ==
    IF address.kind = "None" THEN [err |-> "none", result |-> AllNull]
    ELSE IF IsNull(address.address)
    THEN [err |-> "AttributeError", result |-> AllNull]
    ELSE [err |-> "none", result |-> address.address[1]]

\* Mutant of is_last_try: one try too many.
is_last_try_one_more(i) == i = MaxRetries + 1

\* RateLimiter._retries_gen: try number i (from 0) is the last one.
is_last_try(i) == i = MaxRetries

\* RateLimiter._acquire_request_slot: the clock at which the slot is taken,
\* after sleeping out what is left of min_delay_seconds since _last_call.
acquire_request_slot(last, clock) ==
    IF IsNull(last) THEN clock
    ELSE Max(clock, last[1] + MinDelay * TicksPerUnit)

\* Lines 100-101, 104 and 106-107 on one row, given its address columns.
EnrichRow(r, addr) ==
    [c \in selected_columns \cup {"mag_category", "is_significant", "city", "state",
                                  "country", "day_of_week", "hour_of_day"} |->
        CASE c = "mag_category" -> classify_magnitude(r.mag[1])
          [] c = "is_significant" -> significant(r.mag[1])
          [] c = "city" -> addr.city
          [] c = "state" -> addr.state
          [] c = "country" -> addr.country
          [] c = "day_of_week" -> day_name(r.time)
          [] c = "hour_of_day" -> hour(r.time)
          [] OTHER -> r[c]]

(* ----------------------------- load.py --------------------------------- *)
\* upload_to_bigquery: the exception that leaves the function when the
\* credentials or to_gbq fail with `failure` ("none" when both succeed); the
\* try/except of lines 47-64 logs the failure and returns.
upload_to_bigquery(failure) == "none"

(* --------------------------- etl_main.py ------------------------------- *)
\* Mutant of AfterFetch: the check of raw.empty is missing.
AfterFetch_no_check(df) == "Cleaning"

\* run_pipeline lines 26-28: the stage after the extraction returned raw.
AfterFetch(df) == IF df = <<>> THEN "Aborted" ELSE "Cleaning"

(* ------------------------- inputs of the runs -------------------------- *)
Feature(id, m, place, lat, t, u) ==
    [id |-> id, place |-> place, mag |-> m, time |-> t, updated |-> u,
     coordinates |-> <<Some(1068), lat, Some(10)>>, fetched |-> 30]

\* The features a feed of the pipeline run is made of: a magnitude 9.0 event,
\* a second report of it without magnitude, and a minor event.
FeedFeatures ==
    {Feature("a", Some(90), Some("p"), Some(-62), Some(20), Some(21)),
     Feature("a", Null, Some("p"), Some(-62), Some(20), Null),
     Feature("b", Some(30), Some("q"), Some(-62), Some(5), Some(6))}

SeqsUpTo(S, n) == UNION {[1..k -> S] : k \in 0..n}

Feeds == SeqsUpTo(FeedFeatures, MaxRows)

LoadFailures == {"none", "credentials", "to_gbq"}

\* Ticks a call that returns takes.
CallTicks == 1..MaxCallTicks

ServiceErrors == {"GeocoderUnavailable", "GeocoderTimedOut"}

\* Ticks a call that raises e takes: a timeout takes the whole timeout of
\* line 86, a refused connection one tick.
RaiseTicks(e) == IF e = "GeocoderTimedOut" THEN Timeout * TicksPerUnit ELSE 1

\* How a returned value is recorded: None, a Location without an address
\* object, a Location with one.
ResponseKind(address) ==
    IF address.kind = "None" THEN "None"
    ELSE IF IsNull(address.address) THEN "NoAddress" ELSE "Address"

(* ------------------------- the pipeline run ---------------------------- *)
NoFrame == <<>>

PipelineIdle ==
    /\ recleaned = [err |-> "none", df |-> NoFrame]
    /\ mag = 0 /\ mag_category = "" /\ is_significant = FALSE

Init ==
    /\ pc = "Fetching" /\ fetchRaised = FALSE
    /\ raw = NoFrame /\ cleaned = NoFrame /\ enriched = NoFrame
    /\ invoked = {} /\ raised = "none" /\ loadFailed = FALSE /\ completed = FALSE
    /\ rowIdx = 0 /\ tries = 0 /\ retried = {} /\ lastCall = Null /\ now = 0
    /\ callStarts = <<>> /\ lookups = <<>>
    /\ PipelineIdle

\* run_pipeline lines 24-28: the extraction, and the early return on no rows.
Fetch ==
    /\ pc = "Fetching"
    /\ \E ok \in BOOLEAN, features \in Feeds :
          /\ fetchRaised' = ~ok
          /\ raw' = fetch_earthquake_all_day(ok, features)
          /\ pc' = AfterFetch(raw')
    /\ invoked' = invoked \cup {"fetch_earthquake_all_day"}
    /\ UNCHANGED <<cleaned, enriched, recleaned, raised, loadFailed, completed,
                   rowIdx, tries, retried, lastCall, now, callStarts, lookups,
                   mag, mag_category, is_significant>>

\* run_pipeline line 33
Clean ==
    /\ pc = "Cleaning"
    /\ invoked' = invoked \cup {"clean_earthquake_data"}
    /\ LET res == clean_earthquake_data(raw) IN
          IF res.err # "none"
          THEN /\ pc' = "Failed" /\ raised' = res.err /\ UNCHANGED cleaned
          ELSE /\ pc' = "Enriching" /\ cleaned' = res.df /\ UNCHANGED raised
    /\ UNCHANGED <<fetchRaised, raw, enriched, recleaned, loadFailed, completed,
                   rowIdx, tries, retried, lastCall, now, callStarts, lookups,
                   mag, mag_category, is_significant>>

\* run_pipeline line 35 and enrich_earthquake_data lines 67-68, 100-103: an
\* empty frame is returned as it is; otherwise the row-wise apply starts, and
\* get_address_detail builds a new RateLimiter (lines 86-90) for the first row.
EnrichBegin ==
    /\ pc = "Enriching"
    /\ invoked' = invoked \cup {"enrich_earthquake_data"}
    /\ IF cleaned = <<>>
       THEN /\ enriched' = cleaned /\ pc' = "Loading" /\ UNCHANGED rowIdx
       ELSE /\ rowIdx' = 1 /\ pc' = "Slot" /\ UNCHANGED enriched
    /\ tries' = 0 /\ retried' = {} /\ lastCall' = Null
    /\ UNCHANGED <<fetchRaised, raw, cleaned, recleaned, raised, loadFailed, completed,
                   now, callStarts, lookups, mag, mag_category, is_significant>>

\* RateLimiter.__call__: _acquire_request_slot before every try; the outbound
\* call starts when the slot is taken.  callStarts keeps the start times of
\* the last two outbound calls of the pass.
AcquireSlot ==
    /\ pc = "Slot"
    /\ now' = acquire_request_slot(lastCall, now)
    /\ lastCall' = Some(now')
    /\ callStarts' = IF callStarts = <<>> THEN <<now'>>
                     ELSE <<callStarts[Len(callStarts)], now'>>
    /\ pc' = "Call"
    /\ UNCHANGED <<fetchRaised, raw, cleaned, enriched, recleaned, invoked, raised, loadFailed,
                   completed, rowIdx, tries, retried, lookups,
                   mag, mag_category, is_significant>>

\* The end of get_address_detail for the current row with the value `address`
\* of line 92, which the try that ended with `last` produced: lines 94-97, then
\* the next row (with a new RateLimiter) or, after the last row, lines 104-109
\* and the return to run_pipeline.
FinishLookup(address, last) ==
    LET res == address_fields(address)
        all == Append(lookups, [tries |-> tries + 1, retried |-> retried,
                                last |-> last, err |-> res.err,
                                result |-> res.result])
    IN /\ lookups' = all
       /\ tries' = 0
       /\ retried' = {}
       /\ lastCall' = Null
       /\ IF res.err # "none"
          THEN /\ pc' = "Failed" /\ raised' = res.err
               /\ UNCHANGED <<rowIdx, enriched>>
          ELSE IF rowIdx < Len(cleaned)
          THEN /\ pc' = "Slot" /\ rowIdx' = rowIdx + 1
               /\ UNCHANGED <<raised, enriched>>
          ELSE /\ pc' = "Loading"
               /\ enriched' = [i \in 1..Len(cleaned) |->
                                  EnrichRow(cleaned[i], all[i].result)]
               /\ UNCHANGED <<raised, rowIdx>>

\* coder.reverse returns: a Location or None; the RateLimiter returns it.
CallReturns ==
    /\ pc = "Call"
    /\ \E address \in Responses, d \in CallTicks :
          /\ now' = now + d
          /\ FinishLookup(address, ResponseKind(address))
    /\ UNCHANGED <<fetchRaised, raw, cleaned, recleaned, invoked, loadFailed, completed,
                   callStarts, mag, mag_category, is_significant>>

\* coder.reverse raises a GeocoderServiceError (the service cannot be reached,
\* or the request timed out after `timeout` seconds): the RateLimiter sleeps
\* error_wait_seconds and tries again, or on the last try swallows the
\* exception and returns None.
CallRaises ==
    /\ pc = "Call"
    /\ \E e \in ServiceErrors :
          IF is_last_try(tries)
          THEN /\ now' = now + RaiseTicks(e)
               /\ FinishLookup(NoneResp, e)
          ELSE /\ now' = now + RaiseTicks(e) + ErrorWait * TicksPerUnit
               /\ tries' = tries + 1
               /\ retried' = retried \cup {e}
               /\ pc' = "Slot"
               /\ UNCHANGED <<lastCall, lookups, raised, rowIdx, enriched>>
    /\ UNCHANGED <<fetchRaised, raw, cleaned, recleaned, invoked, loadFailed, completed,
                   callStarts, mag, mag_category, is_significant>>

\* run_pipeline lines 42-46: the upload, then the completion log line.
Load ==
    /\ pc = "Loading"
    /\ invoked' = invoked \cup {"upload_to_bigquery"}
    /\ \E failure \in LoadFailures :
          /\ loadFailed' = (failure # "none")
          /\ IF upload_to_bigquery(failure) # "none"
             THEN /\ pc' = "Failed" /\ raised' = upload_to_bigquery(failure)
                  /\ UNCHANGED completed
             ELSE /\ pc' = "Done" /\ completed' = TRUE /\ UNCHANGED raised
    /\ UNCHANGED <<fetchRaised, raw, cleaned, enriched, recleaned, rowIdx, tries, retried, lastCall,
                   now, callStarts, lookups, mag, mag_category, is_significant>>

Next == Fetch \/ Clean \/ EnrichBegin \/ AcquireSlot \/ CallReturns \/ CallRaises \/ Load

Spec == Init /\ [][Next]_vars

(* ------------- clean_earthquake_data, applied once and twice ----------- *)
\* Rows a frame handed to clean_earthquake_data is made of: for each id, rows
\* with every required field, rows lacking one of them, a negative
\* magnitude, and a time that is no timestamp.
CleanRows ==
    UNION {
      {Record(Feature(id, Some(90), Some("p"), Some(-62), Some(20), Some(21))),
       Record(Feature(id, Some(0), Some("q"), Some(-62), Some(5), Null)),
       Record(Feature(id, Null, Some("p"), Some(-62), Some(20), Some(21))),
       Record(Feature(id, Some(-5), Some("p"), Some(-62), Some(20), Some(21))),
       Record(Feature(id, Some(55), Null, Some(-62), Some(20), Some(21))),
       Record(Feature(id, Some(55), Some("p"), Null, Some(20), Some(21))),
       Record(Feature(id, Some(55), Some("p"), Some(-62), Null, Some(21))),
       [Record(Feature(id, Some(55), Some("p"), Some(-62), Some(20), Some(21)))
           EXCEPT !.longitude = Null],
       [Record(Feature(id, Some(55), Some("r"), Some(-62), Some(20), Some(21)))
           EXCEPT !.time = BadStr]}
      : id \in {"a", "b"}}

CleanInputs == SeqsUpTo(CleanRows, MaxRows)

InitClean ==
    /\ pc = "CleanInput" /\ fetchRaised = FALSE
    /\ raw \in CleanInputs
    /\ cleaned = NoFrame /\ enriched = NoFrame
    /\ invoked = {} /\ raised = "none" /\ loadFailed = FALSE /\ completed = FALSE
    /\ rowIdx = 0 /\ tries = 0 /\ retried = {} /\ lastCall = Null /\ now = 0
    /\ callStarts = <<>> /\ lookups = <<>>
    /\ PipelineIdle

\* cleaned = clean_earthquake_data(raw)
CleanOnce ==
    /\ pc = "CleanInput"
    /\ LET res == clean_earthquake_data(raw) IN
          /\ cleaned' = res.df
          /\ raised' = res.err
    /\ pc' = "CleanedOnce"
    /\ UNCHANGED <<fetchRaised, raw, enriched, recleaned, invoked, loadFailed,
                   completed, rowIdx, tries, retried, lastCall, now, callStarts,
                   lookups, mag, mag_category, is_significant>>

\* recleaned = clean_earthquake_data(cleaned)
CleanTwice ==
    /\ pc = "CleanedOnce"
    /\ raised = "none"
    /\ recleaned' = clean_earthquake_data(cleaned)
    /\ pc' = "CleanedTwice"
    /\ UNCHANGED <<fetchRaised, raw, cleaned, enriched, invoked, raised, loadFailed,
                   completed, rowIdx, tries, retried, lastCall, now, callStarts,
                   lookups, mag, mag_category, is_significant>>

NextClean == CleanOnce \/ CleanTwice

SpecClean == InitClean /\ [][NextClean]_vars

(* ------------- the magnitude columns of enrich_earthquake_data --------- *)
Magnitudes == 0..MaxMag

InitClassify ==
    /\ pc = "Classify" /\ fetchRaised = FALSE
    /\ raw = NoFrame /\ cleaned = NoFrame /\ enriched = NoFrame
    /\ invoked = {} /\ raised = "none" /\ loadFailed = FALSE /\ completed = FALSE
    /\ rowIdx = 0 /\ tries = 0 /\ retried = {} /\ lastCall = Null /\ now = 0
    /\ callStarts = <<>> /\ lookups = <<>>
    /\ recleaned = [err |-> "none", df |-> NoFrame]
    /\ mag \in Magnitudes /\ mag_category = "" /\ is_significant = FALSE

\* enrich_earthquake_data lines 100-101 on a row of magnitude mag
Classify ==
    /\ pc = "Classify"
    /\ mag_category' = classify_magnitude(mag)
    /\ is_significant' = significant(mag)
    /\ pc' = "Classified"
    /\ UNCHANGED <<fetchRaised, raw, cleaned, enriched, recleaned, invoked, raised,
                   loadFailed, completed, rowIdx, tries, retried, lastCall, now,
                   callStarts, lookups, mag>>

NextClassify == Classify

SpecClassify == InitClassify /\ [][NextClassify]_vars

(* ------------------------------ claims --------------------------------- *)
LaterStages == {"clean_earthquake_data", "enrich_earthquake_data", "upload_to_bigquery"}

\* C1: once the extraction has returned zero rows, the run is Aborted: none of
\* clean_earthquake_data, enrich_earthquake_data and upload_to_bigquery is
\* invoked, no exception is raised and the run is not reported complete.
C1_EmptyExtractionAborts ==
    ("fetch_earthquake_all_day" \in invoked /\ raw = <<>>)
        => /\ pc = "Aborted"
           /\ invoked \cap LaterStages = {}
           /\ raised = "none"
           /\ ~completed

\* C1 witness: the fetch raised, the frame is empty and the run is Aborted.
C1_Witness == pc = "Aborted" /\ fetchRaised /\ raw = <<>>

\* C2 (as claimed): a run whose destination write failed does not reach Done
\* and does not log the completion line.
C2_LoadFailureHalts == loadFailed => (pc # "Done" /\ ~completed)

\* C3 (as claimed): the starts of any two consecutive outbound reverse-geocode
\* calls of a pass are at least the minimum delay apart.
C3_MinDelayBetweenCalls ==
    Len(callStarts) = 2 => callStarts[2] - callStarts[1] >= MinDelay * TicksPerUnit

AddressColumnsNull(r) == IsNull(r.city) /\ IsNull(r.state) /\ IsNull(r.country)

\* C4 (as claimed): whatever the lookups of the rows returned,
\* enrich_earthquake_data does not raise, and when it has returned every row
\* whose lookup gave no address has city, state and country null and keeps its
\* magnitude and calendar columns.
C4_LookupFailureAbsorbed ==
    /\ ("enrich_earthquake_data" \in invoked) => (pc # "Failed" /\ raised = "none")
    /\ pc \in {"Loading", "Done"} =>
          \A i \in 1..Len(lookups) :
             lookups[i].last # "Address" =>
                /\ AddressColumnsNull(enriched[i])
                /\ enriched[i].mag_category = classify_magnitude(cleaned[i].mag[1])
                /\ enriched[i].is_significant = significant(cleaned[i].mag[1])
                /\ enriched[i].day_of_week = day_name(cleaned[i].time)
                /\ enriched[i].hour_of_day = hour(cleaned[i].time)

CleanReturned == pc \in {"CleanedOnce", "CleanedTwice"} /\ raised = "none"

\* C5: the frame clean_earthquake_data returns has no two rows with the same
\* id and no row with a magnitude below 0.
C5_UniqueIdsNonNegativeMag ==
    CleanReturned =>
       /\ \A i, j \in 1..Len(cleaned) : cleaned[i].id = cleaned[j].id => i = j
       /\ \A i \in 1..Len(cleaned) : ~IsNull(cleaned[i].mag) /\ cleaned[i].mag[1] >= 0

\* C5 witness: an input with two rows of one id and a row of negative
\* magnitude, of which a row is returned.
C5_Witness ==
    /\ CleanReturned
    /\ \E i, j \in 1..Len(raw) : i # j /\ raw[i].id = raw[j].id
    /\ \E i \in 1..Len(raw) : ~IsNull(raw[i].mag) /\ raw[i].mag[1] < 0
    /\ cleaned # <<>>

Complete(r) == RequiredNonNull(r) /\ r.mag[1] >= 0

\* Positions n, c of the input: rows of one id, n without magnitude, c complete.
NullAndComplete(n, c) ==
    /\ n # c
    /\ raw[n].id = raw[c].id
    /\ IsNull(raw[n].mag)
    /\ Complete(raw[c])

FirstOfId(i) == \A j \in 1..(i - 1) : raw[j].id # raw[i].id

OutputOfId(id) == {i \in 1..Len(cleaned) : cleaned[i].id = id}

\* The output row o is the input row r (its values outside the time columns).
SameEvent(o, r) ==
    /\ o.id = r.id /\ o.mag = r.mag /\ o.place = r.place
    /\ o.latitude = r.latitude /\ o.longitude = r.longitude

\* C6 (as claimed): of two input rows of one id, one without magnitude and one
\* complete, the output holds exactly one row of that id, the complete one,
\* whichever comes first.
C6_CompleteRowKeptAnyOrder ==
    CleanReturned =>
       \A n, c \in 1..Len(raw) :
          NullAndComplete(n, c) =>
             /\ Cardinality(OutputOfId(raw[c].id)) = 1
             /\ \A i \in OutputOfId(raw[c].id) : SameEvent(cleaned[i], raw[c])

\* C6 (amended): of two input rows of one id, one without magnitude and one
\* complete, the output holds exactly one row of that id, the complete one,
\* when the complete row is the first row of that id, and no row of that id
\* when the row without magnitude is the first row of that id.
C6_FirstOccurrenceDecides ==
    CleanReturned =>
       \A n, c \in 1..Len(raw) :
          NullAndComplete(n, c) =>
             /\ FirstOfId(c) =>
                   /\ Cardinality(OutputOfId(raw[c].id)) = 1
                   /\ \A i \in OutputOfId(raw[c].id) : SameEvent(cleaned[i], raw[c])
             /\ FirstOfId(n) => OutputOfId(raw[n].id) = {}

\* C6 witness: the row without magnitude comes first and its id is absent
\* from the output, although a complete row of that id follows.
C6_Witness ==
    /\ CleanReturned
    /\ \E n, c \in 1..Len(raw) :
          NullAndComplete(n, c) /\ n < c /\ FirstOfId(n) /\ OutputOfId(raw[n].id) = {}

\* C7 (as claimed): cleaning a cleaned frame completes without error and
\* returns the same frame.
C7_Idempotent ==
    pc = "CleanedTwice" => (recleaned.err = "none" /\ recleaned.df = cleaned)

\* C10 (as claimed): no row clean_earthquake_data returns has a null time, and
\* the time and updated of every returned row are timezone-aware in the target
\* zone.
C10_NoNullTimeInOutput ==
    CleanReturned =>
       \A i \in 1..Len(cleaned) :
          /\ cleaned[i].time.kind = "ts"
          /\ cleaned[i].time.tz = "WIB"
          /\ cleaned[i].updated.tz = "WIB"

\* C8: a magnitude m >= 0 gets exactly the category of the table (below 2.0
\* Micro, from 2.0 Minor, from 4.0 Light, from 5.5 Moderate, from 7.0 Strong,
\* from 8.0 Major), and is_significant is true exactly from 5.5 on, that is
\* exactly for Moderate, Strong and Major.
C8_CategoryTable ==
    pc = "Classified" =>
       /\ (mag < 20) <=> (mag_category = "Micro")
       /\ (20 <= mag /\ mag < 40) <=> (mag_category = "Minor")
       /\ (40 <= mag /\ mag < 55) <=> (mag_category = "Light")
       /\ (55 <= mag /\ mag < 70) <=> (mag_category = "Moderate")
       /\ (70 <= mag /\ mag < 80) <=> (mag_category = "Strong")
       /\ (80 <= mag) <=> (mag_category = "Major")
       /\ is_significant <=> (mag >= 55)
       /\ is_significant <=> (mag_category \in {"Moderate", "Strong", "Major"})

\* C8 witness: magnitude exactly 5.5 is Moderate and significant.
C8_Witness ==
    pc = "Classified" /\ mag = 55 /\ mag_category = "Moderate" /\ is_significant

\* C9 (as claimed): a lookup that returned to its caller without an address,
\* be it after an error, a timeout or a response without address, has used up
\* all its MaxRetries + 1 tries and returned the all-null result.
C9_EveryFailureRetried ==
    \A i \in 1..Len(lookups) :
       (lookups[i].last # "Address" /\ lookups[i].err = "none") =>
          /\ lookups[i].tries = MaxRetries + 1
          /\ lookups[i].result = AllNull

\* C9 (amended): a lookup makes at most MaxRetries + 1 outbound tries; only a
\* try that raised a service error (network error, timeout) is retried; a
\* lookup whose last try raised has made all MaxRetries + 1 tries and returns
\* the all-null result; a response without match is not retried and gives the
\* all-null result at once.
C9_BoundedTries ==
    /\ tries <= MaxRetries
    /\ retried \subseteq ServiceErrors
    /\ (retried = {}) = (tries = 0)
    /\ \A i \in 1..Len(lookups) :
          /\ lookups[i].tries <= MaxRetries + 1
          /\ lookups[i].retried \subseteq ServiceErrors
          /\ lookups[i].retried = {} => lookups[i].tries = 1
          /\ lookups[i].last \in ServiceErrors =>
                /\ lookups[i].tries = MaxRetries + 1
                /\ lookups[i].err = "none"
                /\ lookups[i].result = AllNull
          /\ lookups[i].last = "None" =>
                (lookups[i].err = "none" /\ lookups[i].result = AllNull)

\* C9 witness: a lookup that timed out on every one of its MaxRetries + 1 tries
\* and returned the all-null result.
C9_Witness ==
    \E i \in 1..Len(lookups) :
       /\ lookups[i].last = "GeocoderTimedOut"
       /\ lookups[i].retried = {"GeocoderTimedOut"}
       /\ lookups[i].tries = MaxRetries + 1
       /\ lookups[i].result = AllNull

====
